---- MODULE Spec2Model ----
(***************************************************************************)
(* Model of src/data/make_test_data.py: the TestData writers, the          *)
(* CustomerMasterTestData generator and the __main__ script.               *)
(*                                                                         *)
(* Two specifications share the variables:                                 *)
(*   Spec     one CustomerMasterTestData object driven by an arbitrary     *)
(*            sequence of generate_data / write_to_csv /                   *)
(*            write_to_snowflake calls (at most MaxCalls of them);         *)
(*   SpecCLI  one run of the __main__ block, lines 150-215.                *)
(*                                                                         *)
(* Randomness.  random.randint and faker draw from pseudo-random           *)
(* generators; the model keeps the generator state in rng, a position on   *)
(* a tape of raw outcomes.  Every draw of one loop iteration reads one bit *)
(* of the position and maps it to an end of the drawn range, and the       *)
(* position advances once per iteration, so successive records differ and  *)
(* every combination of outcomes occurs at some position.  Init draws the  *)
(* start position from 0..MaxSeed.                                         *)
(*                                                                         *)
(* Optional values (Python None) are sequences: <<>> is None, <<v>> is v.  *)
(* Timestamps are seconds since the start of the century.                  *)
(***************************************************************************)
EXTENDS Integers, Sequences, FiniteSets, TLC

VARIABLES
    rng,            \* state of the pseudo-random generators
    has_data,       \* whether the object has the attribute self.data
    self_data,      \* self.data (meaningful when has_data)
    frame,          \* the generate_data call in progress: its num_records and local data
    raised,         \* the exception the last call raised to its caller, or NoExc
    stdout,         \* what print() wrote, in order
    csv_file,       \* the file at the path given to write_to_csv
    wh_table,       \* the warehouse table written by write_pandas
    conn,           \* the snowflake connection of the script: none / open / closed
    creds_loaded,   \* whether dotenv_values('.env') was called
    calls,          \* number of method calls made on the object so far
    csv_calls,      \* history: calls of write_to_csv
    csv_attempts,   \* history: invocations of DataFrame.to_csv
    wh_calls,       \* history: calls of write_to_snowflake
    wh_attempts,    \* history: invocations of write_pandas
    csv_written,    \* history: to_csv invocations that returned normally
    wh_written,     \* history: write_pandas invocations that returned normally
    sink_error,     \* history: what the underlying write of the last call raised
    last_batch,     \* history: records appended by the last generate_data that returned
    gen_returns,    \* history: generate_data calls that returned
    produced,       \* history: records appended by the generate_data call in progress
    cli_pc,         \* position of the __main__ script
    count_input,    \* first input() of the script, a sequence of characters
    format_input,   \* second input() of the script
    num_records,    \* the script's num_records
    format_select   \* the script's format_select

vars == <<rng, has_data, self_data, frame, raised, stdout, csv_file, wh_table,
          conn, creds_loaded, calls, csv_calls, csv_attempts, wh_calls,
          wh_attempts, csv_written, wh_written, sink_error, last_batch, gen_returns,
          produced, cli_pc, count_input, format_input, num_records,
          format_select>>

objVars == <<rng, has_data, self_data, frame, raised, stdout, csv_file, wh_table,
             calls, csv_calls, csv_attempts, wh_calls, wh_attempts, csv_written,
             wh_written, sink_error, last_batch, gen_returns, produced>>

cliVars == <<conn, creds_loaded, cli_pc, count_input, format_input, num_records,
             format_select>>

(***************************************************************************)
(* Bounds of the model.                                                    *)
(***************************************************************************)
MaxSeed == 127
MaxN == 2
MaxCalls == 3
MaxSeedCLI == 31

(***************************************************************************)
(* Program constants.                                                      *)
(***************************************************************************)
SecondsPerDay == 86400
MinDays == 1
MaxDays == 7
MinSeconds == 60
MaxSeconds == 1000
CustIdLo == 10000
CustIdHi == 20000
ChanceLo == 1
ChanceHi == 100
ChanceOfGettingTrue == 90
DefaultNumRecords == 1000
GeneratedNumRecords == 100
YearsThisCentury == 26
DrawsPerRecord == 8

(***************************************************************************)
(* Exceptions.                                                             *)
(***************************************************************************)
NoExc == [type |-> "none", msg |-> ""]

NoAttributeMsg == "'CustomerMasterTestData' object has no attribute 'data'"

MustCreateMsg == "'CustomerMasterTestData' object has no attribute 'data'. \nMust create test data before writing to CSV"

\* What reading self.data raises on an object generate_data never completed on.
AttributeError == [type |-> "AttributeError", msg |-> NoAttributeMsg]

\* What data_to_df raises instead (line 41).
PreconditionError == [type |-> "AttributeError", msg |-> MustCreateMsg]

\* Failures of the underlying writes and of the random-string library.
CsvErrors == {[type |-> "OSError", msg |-> "No such file or directory"],
              [type |-> "PermissionError", msg |-> "Permission denied"]}

SnowflakeErrors == {[type |-> "ProgrammingError", msg |-> "SQL compilation error"],
                    [type |-> "OperationalError", msg |-> "connection is closed"]}

FakerError == [type |-> "AttributeError", msg |-> "Unknown formatter"]

CsvDiag == "Exception while writing data to CSV"

SnowflakeDiag == "Exception while writing data to Snowflake"

(***************************************************************************)
(* The pseudo-random draws.                                                *)
(***************************************************************************)
RngPeriod == 2 ^ DrawsPerRecord

\* The raw outcome of draw k of the iteration at generator state s.
Raw(s, k) == (s \div (2 ^ k)) % 2

NextRng(s) == (s + 1) % RngPeriod

\* random.randint(a, b): an integer of a..b, here one of its two ends.
randint(a, b, raw) == IF raw = 0 THEN a ELSE b

\* faker.boolean(chance_of_getting_true): randint(1, 100) <= chance.
boolean(chance, raw) == randint(ChanceLo, ChanceHi, raw) <= chance

\* faker.date_time_this_century(): between the start of the century and now.
date_time_this_century(raw) ==
    randint(0, YearsThisCentury * 365 * SecondsPerDay, raw)

\* datetime.timedelta(days, seconds), in seconds.
timedelta(days, seconds) == days * SecondsPerDay + seconds

(***************************************************************************)
(* One iteration of the loop of generate_data, lines 99-145.               *)
(***************************************************************************)
country_locale_map == [US |-> "en_US", UK |-> "en_GB"]

country_keys == <<"US", "UK">>

\* Line 102.
PickCountry(raw) == country_keys[randint(0, Len(country_keys) - 1, raw) + 1]

\* Lines 108-113: the pair <<state, county>>.
RegionFieldsSwapped(country, locale) ==
    IF country = "US"
    THEN <<(<<>>), <<"county:" \o locale>>>>
    ELSE <<(<<"state_abbr:" \o locale>>), <<>>>>

RegionFields(country, locale) ==
    IF country = "US"
    THEN <<(<<"state_abbr:" \o locale>>), <<>>>>
    ELSE <<(<<>>), <<"county:" \o locale>>>>

\* Line 120.
UpdatedAtSecondsOnly(created_at, days, seconds) == created_at + timedelta(0, seconds)

UpdatedAt(created_at, days, seconds) == created_at + timedelta(days, seconds)

\* Lines 121-124.
DeletedAt(is_active, updated_at, days, seconds) ==
    IF ~is_active
    THEN <<updated_at + timedelta(days, seconds)>>
    ELSE <<>>

\* The keys of the appended dictionary, in their order (lines 129-143).
RecordFields == <<"cust_id", "first_name", "last_name", "email", "phone",
                  "address", "city", "county", "state", "postal_code",
                  "country", "is_active", "created_at", "updated_at",
                  "deleted_at">>

\* The record the iteration at generator state s appends.
MakeRecord(s) ==
    LET country    == PickCountry(Raw(s, 1))
        locale     == country_locale_map[country]
        region     == RegionFields(country, locale)
        is_active  == boolean(ChanceOfGettingTrue, Raw(s, 2))
        created_at == date_time_this_century(Raw(s, 0))
        updated_at == UpdatedAt(created_at,
                                randint(MinDays, MaxDays, Raw(s, 3)),
                                randint(MinSeconds, MaxSeconds, Raw(s, 4)))
        deleted_at == DeletedAt(is_active, updated_at,
                                randint(MinDays, MaxDays, Raw(s, 5)),
                                randint(MinSeconds, MaxSeconds, Raw(s, 6)))
    IN  [cust_id     |-> randint(CustIdLo, CustIdHi, Raw(s, 7)),
         first_name  |-> "first_name:" \o locale,
         last_name   |-> "last_name:" \o locale,
         email       |-> "email:" \o locale,
         phone       |-> "phone_number:" \o locale,
         address     |-> "address:" \o locale,
         city        |-> "city:" \o locale,
         county      |-> region[2],
         state       |-> region[1],
         postal_code |-> "postcode:" \o locale,
         country     |-> country,
         is_active   |-> is_active,
         created_at  |-> created_at,
         updated_at  |-> updated_at,
         deleted_at  |-> deleted_at]

(***************************************************************************)
(* pandas: DataFrame(list of dicts), DataFrame.to_csv, and read_csv.       *)
(***************************************************************************)
\* pd.DataFrame(self.data): the columns are the keys of the dictionaries, so
\* a frame built from the empty list has no columns.
DataFrame(data) ==
    [columns |-> IF Len(data) = 0 THEN <<>> ELSE RecordFields,
     rows    |-> data]

\* The text to_csv writes for one cell: None, NaN and NaT as the empty text,
\* numbers by their digits; ToString(t) stands for the timestamp's text.
FmtCell(col, rec) ==
    LET v == rec[col]
    IN  CASE col \in {"cust_id", "created_at", "updated_at"} -> ToString(v)
          [] col = "is_active" -> IF v THEN "True" ELSE "False"
          [] col \in {"county", "state"} -> IF v = <<>> THEN "" ELSE v[1]
          [] col = "deleted_at" -> IF v = <<>> THEN "" ELSE ToString(v[1])
          [] OTHER -> v

NoFile == [exists |-> FALSE, header |-> <<>>, rows |-> <<>>]

\* open(path, "w") succeeded and nothing was written.
TruncatedFile == [exists |-> TRUE, header |-> <<>>, rows |-> <<>>]

\* data_df.to_csv(path, index): a header row of the column names, one row of
\* text per record, and with index a leading unnamed column of row numbers.
to_csv(df, index) ==
    [exists |-> TRUE,
     header |-> IF index THEN <<"">> \o df.columns ELSE df.columns,
     rows   |-> [i \in 1..Len(df.rows) |->
                   (IF index THEN <<ToString(i - 1)>> ELSE <<>>) \o
                   [c \in 1..Len(df.columns) |-> FmtCell(df.columns[c], df.rows[i])]]]

\* pandas.read_csv of such a file: the empty text reads as NaN; a file with
\* no column names raises EmptyDataError.
read_csv(file) ==
    IF ~file.exists \/ file.header = <<>>
    THEN [ok |-> FALSE, columns |-> <<>>, rows |-> <<>>]
    ELSE [ok |-> TRUE, columns |-> file.header,
          rows |-> [i \in 1..Len(file.rows) |->
                      [c \in 1..Len(file.header) |->
                         IF file.rows[i][c] = "" THEN <<>> ELSE <<file.rows[i][c]>>]]]

NoTable == [exists |-> FALSE, columns |-> <<>>, rows |-> <<>>]

\* write_pandas(..., auto_create_table=True, overwrite=True): the table is
\* created if absent and its contents replaced.
write_pandas(df) == [exists |-> TRUE, columns |-> df.columns, rows |-> df.rows]

(***************************************************************************)
(* TestData, lines 28-76.                                                  *)
(***************************************************************************)
\* Outcomes of an underlying write: it returns, or it raises one of the
\* sink's errors, having truncated the target or not.
WriteOk == [ok |-> TRUE, exc |-> NoExc, truncated |-> FALSE]

CsvOutcomes ==
    {WriteOk} \cup {[ok |-> FALSE, exc |-> e, truncated |-> b] :
                       e \in CsvErrors, b \in BOOLEAN}

SnowflakeOutcomes ==
    {WriteOk} \cup {[ok |-> FALSE, exc |-> e, truncated |-> FALSE] :
                       e \in SnowflakeErrors}

\* data_to_df, lines 37-43.  No method of the file calls it.
data_to_df(has, data) ==
    IF ~has
    THEN [raised |-> PreconditionError, df |-> DataFrame(<<>>)]
    ELSE [raised |-> NoExc, df |-> DataFrame(data)]

\* Lines 53-55: except Exception as e: print(...); raise e.
csv_except_swallowed(e) == [printed |-> <<CsvDiag>>, raised |-> NoExc]

csv_except(e) == [printed |-> <<CsvDiag>>, raised |-> e]

\* Lines 74-76.
snowflake_except(e) == [printed |-> <<SnowflakeDiag>>, raised |-> e]

\* write_to_csv, lines 45-55, on an object with (has) or without the
\* attribute data, when the underlying to_csv ends with outcome out.
write_to_csv(has, data, file, out) ==
    IF ~has
    THEN [raised |-> AttributeError, printed |-> <<>>, file |-> file,
          attempts |-> 0, written |-> 0, sink_error |-> NoExc]
    ELSE LET data_df == DataFrame(data)
         IN  IF out.ok
             THEN [raised |-> NoExc, printed |-> <<>>,
                   file |-> to_csv(data_df, FALSE),
                   attempts |-> 1, written |-> 1, sink_error |-> NoExc]
             ELSE [raised |-> csv_except(out.exc).raised,
                   printed |-> csv_except(out.exc).printed,
                   file |-> IF out.truncated THEN TruncatedFile ELSE file,
                   attempts |-> 1, written |-> 0, sink_error |-> out.exc]

\* write_to_snowflake, lines 57-76.
write_to_snowflake(has, data, table, out) ==
    IF ~has
    THEN [raised |-> AttributeError, printed |-> <<>>, table |-> table,
          attempts |-> 0, written |-> 0, sink_error |-> NoExc]
    ELSE LET data_df == DataFrame(data)
         IN  IF out.ok
             THEN [raised |-> NoExc, printed |-> <<>>,
                   table |-> write_pandas(data_df),
                   attempts |-> 1, written |-> 1, sink_error |-> NoExc]
             ELSE [raised |-> snowflake_except(out.exc).raised,
                   printed |-> snowflake_except(out.exc).printed,
                   table |-> table,
                   attempts |-> 1, written |-> 0, sink_error |-> out.exc]

(***************************************************************************)
(* CustomerMasterTestData.generate_data, lines 84-146.                     *)
(***************************************************************************)
NoFrame == [active |-> FALSE, num_records |-> 0, i |-> 0, data |-> <<>>]

\* for i in range(num_records): whether iteration i runs.
InRangeInclusive(i, n) == i <= n

InRange(i, n) == i < n

\* Line 146, self.data = data: the attribute after the assignment.
AssignDataAppended(old, data) == old \o data

AssignData(old, data) == data

\* The effects of a write_to_csv call on the object and its sink.
DoWriteToCsv(out) ==
    LET r == write_to_csv(has_data, self_data, csv_file, out)
    IN  /\ raised' = r.raised
        /\ stdout' = stdout \o r.printed
        /\ csv_file' = r.file
        /\ csv_calls' = csv_calls + 1
        /\ csv_attempts' = csv_attempts + r.attempts
        /\ csv_written' = csv_written + r.written
        /\ sink_error' = r.sink_error
        /\ UNCHANGED <<rng, has_data, self_data, frame, wh_table, wh_calls,
                       wh_attempts, wh_written, last_batch, gen_returns, produced>>

\* The effects of a write_to_snowflake call on the object and its sink.
DoWriteToSnowflake(out) ==
    LET r == write_to_snowflake(has_data, self_data, wh_table, out)
    IN  /\ raised' = r.raised
        /\ stdout' = stdout \o r.printed
        /\ wh_table' = r.table
        /\ wh_calls' = wh_calls + 1
        /\ wh_attempts' = wh_attempts + r.attempts
        /\ wh_written' = wh_written + r.written
        /\ sink_error' = r.sink_error
        /\ UNCHANGED <<rng, has_data, self_data, frame, csv_file, csv_calls,
                       csv_attempts, csv_written, last_batch, gen_returns, produced>>

\* Entry of generate_data(num_records): line 98, data = [].
DoGenCall(n) ==
    /\ ~frame.active
    /\ frame' = [active |-> TRUE, num_records |-> n, i |-> 0, data |-> <<>>]
    /\ raised' = NoExc
    /\ sink_error' = NoExc
    /\ produced' = <<>>
    /\ UNCHANGED <<rng, has_data, self_data, stdout, csv_file, wh_table,
                   csv_calls, csv_attempts, wh_calls, wh_attempts, csv_written,
                   wh_written, last_batch, gen_returns>>

\* One iteration of the loop, lines 99-145.
GenStep ==
    /\ frame.active
    /\ InRange(frame.i, frame.num_records)
    /\ frame' = [frame EXCEPT !.i = @ + 1, !.data = Append(@, MakeRecord(rng))]
    /\ produced' = Append(produced, MakeRecord(rng))
    /\ rng' = NextRng(rng)
    /\ UNCHANGED <<has_data, self_data, raised, stdout, csv_file, wh_table,
                   calls, csv_calls, csv_attempts, wh_calls, wh_attempts,
                   csv_written, wh_written, sink_error, last_batch, gen_returns>>
    /\ UNCHANGED cliVars

\* An iteration in which the random-string library raises: the exception
\* leaves generate_data, whose local data is dropped.
GenRaise ==
    /\ frame.active
    /\ InRange(frame.i, frame.num_records)
    /\ frame' = NoFrame
    /\ raised' = FakerError
    /\ rng' = NextRng(rng)
    /\ UNCHANGED <<has_data, self_data, stdout, csv_file, wh_table, calls,
                   csv_calls, csv_attempts, wh_calls, wh_attempts, csv_written,
                   wh_written, sink_error, last_batch, gen_returns, produced>>
    /\ UNCHANGED cliVars

\* The loop is over: line 146 and the return.
GenReturn ==
    /\ frame.active
    /\ ~InRange(frame.i, frame.num_records)
    /\ self_data' = AssignData(self_data, frame.data)
    /\ has_data' = TRUE
    /\ last_batch' = produced
    /\ gen_returns' = gen_returns + 1
    /\ frame' = NoFrame
    /\ UNCHANGED <<rng, raised, stdout, csv_file, wh_table, calls, csv_calls,
                   csv_attempts, wh_calls, wh_attempts, csv_written, wh_written,
                   sink_error, produced>>
    /\ UNCHANGED cliVars

(***************************************************************************)
(* Spec: calls on one object.                                              *)
(***************************************************************************)
\* The counts generate_data is called with.
CountArgs == 0..MaxN

InitObject(seeds) ==
    /\ rng \in seeds
    /\ has_data = FALSE
    /\ self_data = <<>>
    /\ frame = NoFrame
    /\ raised = NoExc
    /\ stdout = <<>>
    /\ csv_file = NoFile
    /\ wh_table = NoTable
    /\ calls = 0
    /\ csv_calls = 0
    /\ csv_attempts = 0
    /\ wh_calls = 0
    /\ wh_attempts = 0
    /\ csv_written = 0
    /\ wh_written = 0
    /\ sink_error = NoExc
    /\ last_batch = <<>>
    /\ gen_returns = 0
    /\ produced = <<>>

Init ==
    /\ InitObject(0..MaxSeed)
    /\ conn = "none"
    /\ creds_loaded = FALSE
    /\ cli_pc = "off"
    /\ count_input = <<>>
    /\ format_input = ""
    /\ num_records = 0
    /\ format_select = ""

GenerateData ==
    /\ calls < MaxCalls
    /\ \E n \in CountArgs : DoGenCall(n)
    /\ calls' = calls + 1
    /\ UNCHANGED cliVars

WriteToCsv ==
    /\ calls < MaxCalls
    /\ ~frame.active
    /\ \E out \in CsvOutcomes : DoWriteToCsv(out)
    /\ calls' = calls + 1
    /\ UNCHANGED cliVars

WriteToSnowflake ==
    /\ calls < MaxCalls
    /\ ~frame.active
    /\ \E out \in SnowflakeOutcomes : DoWriteToSnowflake(out)
    /\ calls' = calls + 1
    /\ UNCHANGED cliVars

Next ==
    \/ GenerateData
    \/ GenStep
    \/ GenRaise
    \/ GenReturn
    \/ WriteToCsv
    \/ WriteToSnowflake

Spec == Init /\ [][Next]_vars

(***************************************************************************)
(* The __main__ script, lines 150-215.                                     *)
(***************************************************************************)
Digits == <<"0", "1", "2", "3", "4", "5", "6", "7", "8", "9">>

IsDigit(c) == \E d \in 1..Len(Digits) : Digits[d] = c

DigitValue(c) == (CHOOSE d \in 1..Len(Digits) : Digits[d] = c) - 1

RECURSIVE DigitsValue(_)
DigitsValue(s) ==
    IF s = <<>> THEN 0
    ELSE 10 * DigitsValue(SubSeq(s, 1, Len(s) - 1)) + DigitValue(s[Len(s)])

ValueError == [type |-> "ValueError", msg |-> "invalid literal for int() with base 10"]

\* int(s) for a string of characters: an optional sign and decimal digits,
\* anything else raises ValueError.
int(s) ==
    LET signed == s # <<>> /\ s[1] \in {"+", "-"}
        body   == IF signed THEN Tail(s) ELSE s
    IN  IF body # <<>> /\ \A k \in 1..Len(body) : IsDigit(body[k])
        THEN [raised |-> NoExc,
              value  |-> IF signed /\ s[1] = "-" THEN 0 - DigitsValue(body)
                         ELSE DigitsValue(body)]
        ELSE [raised |-> ValueError, value |-> 0]

\* Line 154: int(num_records) if num_records else 1000.
ParseNumRecords(input) ==
    IF input # <<>> THEN int(input)
    ELSE [raised |-> NoExc, value |-> DefaultNumRecords]

\* class StorageFormats(Enum), lines 24-26, as <<name, value>> pairs.
StorageFormats == {<<"CSV", 1>>, <<"SNOWFLAKE", 2>>}

\* Line 158: {str(format.value): format.name for format in StorageFormats}.
valid_format_dict ==
    [k \in {ToString(f[2]) : f \in StorageFormats} |->
        (CHOOSE f \in StorageFormats : ToString(f[2]) = k)[1]]

InvalidFormatWarning == "Invalid value given for format. Using CSV by default..."

\* Lines 166-172: the lookup and its KeyError handler.
SelectFormatWarehouse(input) ==
    IF input \in DOMAIN valid_format_dict
    THEN [format_select |-> valid_format_dict[input], printed |-> <<>>]
    ELSE [format_select |-> "SNOWFLAKE", printed |-> <<InvalidFormatWarning>>]

SelectFormat(input) ==
    IF input \in DOMAIN valid_format_dict
    THEN [format_select |-> valid_format_dict[input], printed |-> <<>>]
    ELSE [format_select |-> "CSV", printed |-> <<InvalidFormatWarning>>]

\* What the caller types at the two prompts.
CountInputs == {<<>>, <<"5">>, <<"1", "0", "0">>, <<"a">>}

FormatInputs == {"1", "2", "9", ""}

ConnectError == [type |-> "DatabaseError", msg |-> "failed to connect"]

\* Whether the script is over: it ran to its end, or an exception left it.
RunEnded == cli_pc # "off" /\ (cli_pc = "done" \/ raised # NoExc)

\* Lines 153-155.
ReadCount ==
    /\ cli_pc = "read_count"
    /\ raised = NoExc
    /\ \E input \in CountInputs :
          LET r == ParseNumRecords(input)
          IN  /\ count_input' = input
              /\ raised' = r.raised
              /\ num_records' = r.value
              /\ IF r.raised = NoExc
                 THEN /\ stdout' = Append(stdout, "Number of records to generate: "
                                                   \o ToString(r.value))
                      /\ cli_pc' = "choose_format"
                 ELSE UNCHANGED <<stdout, cli_pc>>
    /\ UNCHANGED <<rng, has_data, self_data, frame, csv_file, wh_table, calls,
                   csv_calls, csv_attempts, wh_calls, wh_attempts, csv_written,
                   wh_written, sink_error, last_batch, gen_returns, produced, conn,
                   creds_loaded, format_input, format_select>>

\* Lines 158-173.
ChooseFormat ==
    /\ cli_pc = "choose_format"
    /\ raised = NoExc
    /\ \E input \in FormatInputs :
          LET r == SelectFormat(input)
          IN  /\ format_input' = input
              /\ format_select' = r.format_select
              /\ stdout' = (Append(stdout, "Format option selected: " \o input)
                               \o r.printed)
                           \o <<"Test data format: " \o r.format_select>>
    /\ cli_pc' = "generate"
    /\ UNCHANGED <<rng, has_data, self_data, frame, raised, csv_file, wh_table,
                   calls, csv_calls, csv_attempts, wh_calls, wh_attempts,
                   csv_written, wh_written, sink_error, last_batch, gen_returns, produced,
                   conn, creds_loaded, count_input, num_records>>

\* Lines 176-177: customer_test_data.generate_data(num_records=100).
CliGenerate ==
    /\ cli_pc = "generate"
    /\ raised = NoExc
    /\ DoGenCall(GeneratedNumRecords)
    /\ calls' = calls + 1
    /\ cli_pc' = "write"
    /\ UNCHANGED <<conn, creds_loaded, count_input, format_input, num_records,
                   format_select>>

\* Lines 180-181.
CliWriteCsv ==
    /\ cli_pc = "write"
    /\ ~frame.active
    /\ raised = NoExc
    /\ format_select = "CSV"
    /\ \E out \in CsvOutcomes :
          /\ DoWriteToCsv(out)
          /\ cli_pc' = IF out.ok THEN "done" ELSE cli_pc
    /\ calls' = calls + 1
    /\ UNCHANGED <<conn, creds_loaded, count_input, format_input, num_records,
                   format_select>>

\* Lines 182-201: dotenv_values('.env') and snowflake.connector.connect.
CliConnect ==
    /\ cli_pc = "write"
    /\ ~frame.active
    /\ raised = NoExc
    /\ format_select = "SNOWFLAKE"
    /\ creds_loaded' = TRUE
    /\ \E ok \in BOOLEAN :
          IF ok
          THEN /\ conn' = "open"
               /\ stdout' = stdout \o <<"env", "Connected to Snowflake">>
               /\ cli_pc' = "write_snowflake"
               /\ UNCHANGED raised
          ELSE /\ raised' = ConnectError
               /\ stdout' = Append(stdout, "env")
               /\ UNCHANGED <<conn, cli_pc>>
    /\ UNCHANGED <<rng, has_data, self_data, frame, csv_file, wh_table, calls,
                   csv_calls, csv_attempts, wh_calls, wh_attempts, csv_written,
                   wh_written, sink_error, last_batch, gen_returns, produced, count_input,
                   format_input, num_records, format_select>>

\* Lines 204-209.
CliWriteSnowflake ==
    /\ cli_pc = "write_snowflake"
    /\ raised = NoExc
    /\ \E out \in SnowflakeOutcomes :
          /\ DoWriteToSnowflake(out)
          /\ cli_pc' = IF out.ok THEN "close" ELSE cli_pc
    /\ calls' = calls + 1
    /\ UNCHANGED <<conn, creds_loaded, count_input, format_input, num_records,
                   format_select>>

\* Line 212: conn.close().
CliClose ==
    /\ cli_pc = "close"
    /\ raised = NoExc
    /\ conn' = "closed"
    /\ cli_pc' = "done"
    /\ UNCHANGED objVars
    /\ UNCHANGED <<creds_loaded, count_input, format_input, num_records,
                   format_select>>

InitCLI ==
    /\ InitObject(0..MaxSeedCLI)
    /\ conn = "none"
    /\ creds_loaded = FALSE
    /\ cli_pc = "read_count"
    /\ count_input = <<>>
    /\ format_input = ""
    /\ num_records = 0
    /\ format_select = ""

NextCLI ==
    \/ ReadCount
    \/ ChooseFormat
    \/ CliGenerate
    \/ GenStep
    \/ GenRaise
    \/ GenReturn
    \/ CliWriteCsv
    \/ CliConnect
    \/ CliWriteSnowflake
    \/ CliClose

SpecCLI == InitCLI /\ [][NextCLI]_vars

(***************************************************************************)
(* Properties.                                                             *)
(***************************************************************************)
Range(s) == {s[k] : k \in 1..Len(s)}

\* A step in which a generate_data call returns normally.
GenerateReturns == frame.active /\ ~frame'.active /\ raised' = NoExc

\* The smallest and the largest offset timedelta(randint(1, 7), randint(60, 1000)).
MinOffset == MinDays * SecondsPerDay + MinSeconds

MaxOffset == MaxDays * SecondsPerDay + MaxSeconds

\* C1: whenever generate_data(N) with N >= 0 returns, the object has the
\* attribute data and it holds exactly N records.
C1_ExactlyNRecords ==
    [][(GenerateReturns /\ frame.num_records >= 0)
         => (has_data' /\ Len(self_data') = frame.num_records)]_vars

C1_Witness ==
    /\ has_data
    /\ ~frame.active
    /\ gen_returns >= 1
    /\ Len(self_data) = MaxN

\* C2: a writer called on an object generate_data never completed on raises
\* the error whose message says the test data must be created first, and
\* writes nothing to either sink.
C2_PreconditionError ==
    [][(~has_data /\ (csv_calls' = csv_calls + 1 \/ wh_calls' = wh_calls + 1))
         => /\ raised' = PreconditionError
            /\ csv_file' = csv_file
            /\ wh_table' = wh_table
            /\ csv_attempts' = csv_attempts
            /\ wh_attempts' = wh_attempts]_vars

\* C3: in every record of the stored batch updated_at lies between 1 day 60
\* seconds and 7 days 1000 seconds after created_at; an inactive record has
\* a deleted_at that lies as far after updated_at; an active record has none.
C3_TimestampOrder ==
    has_data =>
      \A r \in Range(self_data) :
        /\ r.updated_at > r.created_at
        /\ r.updated_at - r.created_at \in MinOffset..MaxOffset
        /\ ~r.is_active =>
              /\ r.deleted_at # <<>>
              /\ r.deleted_at[1] > r.updated_at
              /\ r.deleted_at[1] - r.updated_at \in MinOffset..MaxOffset
        /\ r.is_active => r.deleted_at = <<>>

C3_Witness ==
    /\ has_data
    /\ \E r \in Range(self_data) :
          ~r.is_active /\ r.deleted_at[1] - r.updated_at = MinOffset
    /\ \E r \in Range(self_data) :
          r.is_active /\ r.updated_at - r.created_at = MaxOffset

\* C4: in every record of the stored batch exactly one of state and county
\* is set: state for country "US", county for every other country.
C4_OneRegionField ==
    has_data =>
      \A r \in Range(self_data) :
        /\ (r.state # <<>>) # (r.county # <<>>)
        /\ r.country = "US" => (r.state # <<>> /\ r.county = <<>>)
        /\ r.country # "US" => (r.county # <<>> /\ r.state = <<>>)

C4_Witness ==
    /\ has_data
    /\ \E r \in Range(self_data) : r.country = "US"
    /\ \E r \in Range(self_data) : r.country = "UK"

\* The count the caller asked for at the first prompt.
Requested == ParseNumRecords(count_input).value

\* C5: the batch the script generates and hands to the sink holds the count
\* entered at the prompt, or 1000 records when nothing was entered.
C5_BatchHasRequestedCount ==
    (cli_pc \in {"write", "write_snowflake", "close", "done"}
       /\ ~frame.active /\ has_data)
      => Len(self_data) = Requested

PastSelection == cli_pc \in {"generate", "write", "write_snowflake", "close", "done"}

InvalidFormat == format_input \notin {"1", "2"}

\* The fallback itself: an input that is no selector selects the flat file
\* without an exception, and nothing of the warehouse path ever runs.
FallsBackToCsv ==
    (PastSelection /\ InvalidFormat) =>
        /\ format_select = "CSV"
        /\ cli_pc = "generate" => raised = NoExc
        /\ ~creds_loaded
        /\ conn = "none"
        /\ wh_calls = 0
        /\ wh_attempts = 0
        /\ wh_table = NoTable

\* C6 as stated, read of the runs that have generated their batch: after an
\* input that is no selector the run falls back to the flat file, writes the
\* batch to it and never touches the warehouse path; every run writes its
\* batch to exactly one backend.
C6_Original ==
    /\ FallsBackToCsv
    /\ (RunEnded /\ InvalidFormat /\ has_data) =>
          /\ csv_written = 1
          /\ csv_file = to_csv(DataFrame(self_data), FALSE)
    /\ (RunEnded /\ has_data) => csv_written + wh_written = 1

\* C6 amended: after an input that is no selector the run falls back to the
\* flat file and never touches the warehouse path; once the batch is
\* generated the one writer called is write_to_csv, and a run that ends
\* normally has written the batch to the flat file; no run writes the batch
\* to more than one backend, and a run that ends normally has written it to
\* exactly one.
C6_FallbackToFlatFile ==
    /\ FallsBackToCsv
    /\ (RunEnded /\ PastSelection /\ InvalidFormat /\ has_data) =>
          /\ csv_calls = 1
          /\ csv_attempts = 1
    /\ (cli_pc = "done" /\ InvalidFormat) =>
          /\ csv_written = 1
          /\ csv_file = to_csv(DataFrame(self_data), FALSE)
    /\ csv_written + wh_written <= 1
    /\ cli_pc = "done" => csv_written + wh_written = 1

C6_Witness ==
    /\ cli_pc = "done"
    /\ format_input = "9"
    /\ format_select = "CSV"
    /\ csv_written = 1
    /\ Len(csv_file.rows) = GeneratedNumRecords

\* C7: in a writer call whose underlying write raises, the write was
\* attempted once, the diagnostic is the last thing printed, and the
\* exception raised to the caller is the one the write raised.
C7_ReraisesSameException ==
    [][/\ (csv_calls' = csv_calls + 1 /\ sink_error' # NoExc) =>
             /\ csv_attempts' = csv_attempts + 1
             /\ stdout' = Append(stdout, CsvDiag)
             /\ raised' = sink_error'
       /\ (wh_calls' = wh_calls + 1 /\ sink_error' # NoExc) =>
             /\ wh_attempts' = wh_attempts + 1
             /\ stdout' = Append(stdout, SnowflakeDiag)
             /\ raised' = sink_error'
       /\ (csv_calls' = csv_calls + 1 /\ has_data) =>
             csv_attempts' = csv_attempts + 1
       /\ (wh_calls' = wh_calls + 1 /\ has_data) =>
             wh_attempts' = wh_attempts + 1]_vars

C7_Witness ==
    /\ csv_calls >= 1
    /\ wh_calls >= 1
    /\ sink_error \in CsvErrors
    /\ raised = sink_error
    /\ stdout # <<>>
    /\ stdout[Len(stdout)] = CsvDiag

\* C8: write_to_snowflake is called only on an opened connection, and no
\* run ends, normally or by an exception, with an opened connection that
\* was not closed.
C8_ConnectionClosed ==
    /\ wh_calls > 0 => conn # "none"
    /\ RunEnded => conn # "open"

\* The null pattern of a batch: per record and field, whether it is None.
NullPattern(data) ==
    [k \in 1..Len(data) |->
        [c \in 1..Len(RecordFields) |->
            /\ RecordFields[c] \in {"county", "state", "deleted_at"}
            /\ data[k][RecordFields[c]] = <<>>]]

\* The null pattern of what read_csv returns.
ReadNullPattern(read) ==
    [k \in 1..Len(read.rows) |->
        [c \in 1..Len(read.columns) |-> read.rows[k][c] = <<>>]]

\* C9: the file a successful write_to_csv leaves has the record fields as
\* its header, no index column, and reads back with the same columns, row
\* count and null pattern as the batch, the empty batch included.
C9_RoundTrip ==
    [][(csv_written' = csv_written + 1) =>
          /\ csv_file'.header = RecordFields
          /\ read_csv(csv_file').ok
          /\ read_csv(csv_file').columns = RecordFields
          /\ Len(read_csv(csv_file').rows) = Len(self_data)
          /\ ReadNullPattern(read_csv(csv_file')) = NullPattern(self_data)]_vars

\* C10: the stored batch is the batch of the last generate_data call that
\* returned normally, and only such a return changes it: not a new call that
\* is still running or raised, and not a writer.
C10_BatchIsLastGenerated ==
    /\ [](has_data => self_data = last_batch)
    /\ [](has_data <=> gen_returns > 0)
    /\ [][~GenerateReturns => (has_data' = has_data /\ self_data' = self_data)]_vars

C10_Witness ==
    /\ gen_returns = 2
    /\ Len(self_data) = 1
    /\ csv_written = 1
    /\ Len(csv_file.rows) = MaxN

====
